---------------------------- MODULE Spec2Model ----------------------------
(***************************************************************************)
(* Model of JFiComm (src/jfi_comm/src/jfi_comm.cpp): a serial transport    *)
(* with one caller thread (init, openPort, closePort, send, destructor)    *)
(* and one receiver thread (recvMavLoop) sharing the descriptor fd_ and    *)
(* the mutex fd_mutex_.                                                    *)
(*                                                                         *)
(* Every system call is one program location ("..._sys": the thread is     *)
(* inside the call) and one step (the call's effect and return), so that   *)
(* "two descriptor operations in progress at once" is a state.             *)
(*                                                                         *)
(* Spec and SpecFair run the two threads; SpecBaud runs openPort and       *)
(* closePort alone over every baud rate; SpecCodec runs the receiver loop  *)
(* on a line that carries the frames send writes, and SpecRestart lets a   *)
(* second loop follow the first.                                           *)
(***************************************************************************)
EXTENDS Integers, Sequences, FiniteSets

(* ------------------------------ bounds -------------------------------- *)

\* Highest descriptor number the operating system hands out (0..MaxFd).
MaxFd == 1

\* Most bytes one read() returns in the model (the code's buffer is 256).
MaxRead == 2

\* Byte values are 0..MaxByte.
MaxByte == 1

\* Capacity of the frame's payload buffer, sizeof(jfi_msg.data), scaled down.
JfiDataCap == 1

\* Longest run of foreign bytes put on the loopback line before a frame.
MaxGarbage == 2

(* ----------------------------- constants ------------------------------ *)

B9600 == 9600
B19200 == 19200
B38400 == 38400
B57600 == 57600
B115200 == 115200

\* fd_ when no descriptor is held.
NoFd == -1

\* Baud rates the caller passes in the model: a supported one, the default,
\* and an unsupported one.
BaudInputs == {9600, 115200, 12345}

\* The callback and identity arguments init is called with in the model:
\* no callback with the default identity, or a callback with another one.
InitInputs == {[cb |-> FALSE, sid |-> 1, cid |-> 1],
               [cb |-> TRUE, sid |-> 2, cid |-> 3]}

Fds == 0..MaxFd
Byte == 0..MaxByte

\* Frame start marker and the one recognized message id of the wire format.
MAVLINK_STX == MaxByte
MAVLINK_MSG_ID_JFI == 1

VARIABLES
    fd_,                \* the held descriptor, NoFd when closed
    running_,           \* the receiver loop's running flag
    receive_callback_,  \* TRUE when a non-empty callback is registered
    fd_mutex_,          \* "free", "caller" or "recv": who holds the mutex
    osOpen,             \* descriptors open in the operating system
    osSpeed,            \* line speed applied to each open descriptor (0: none)
    cpc,                \* caller thread's location
    cctx,               \* what called openPort/closePort: "api", "init", "dtor"
    ret,                \* openPort's / init's return value
    baud_rate,          \* openPort's baud_rate argument
    rpc,                \* receiver thread's location
    rfd,                \* the descriptor value passed to read()
    rx,                 \* bytes of the current read not yet parsed
    parse,              \* the frame codec's parse state
    aborted,            \* std::terminate was called
    joinable,           \* mav_recv_thread_.joinable()
    dataReady,          \* bytes are waiting on the serial line
    system_id_,         \* link identity stamped on outbound frames
    component_id_,
    cb_args,            \* (tid, data) of the callback being invoked
    line,               \* loopback line: bytes written and not yet read
    fed,                \* every byte put on the loopback line so far
    delivered,          \* the callback invocations so far, in order
    sent                \* the send(tid, data) calls so far, in order

vars == <<fd_, running_, receive_callback_, fd_mutex_, osOpen, osSpeed, cpc,
          cctx, ret, baud_rate, rpc, rfd, rx, parse, aborted, joinable,
          dataReady, system_id_, component_id_, cb_args, line, fed,
          delivered, sent>>

callerVars == <<cpc, cctx, ret, baud_rate>>
recvVars == <<rpc, rfd, rx, parse, cb_args>>
portVars == <<fd_, osOpen, osSpeed>>
idVars == <<system_id_, component_id_>>
codecVars == <<line, fed, delivered, sent>>

(* --------------------------- frame codec ------------------------------ *)
\* A frame on the wire is
\*   <<STX, len, sysid, compid, msgid, payload[1..len], checksum>>
\* and the payload of the recognized message is the structure
\*   <<tid, len, data[1..JfiDataCap]>>.

RECURSIVE SumSeq(_)
SumSeq(s) == IF s = <<>> THEN 0 ELSE Head(s) + SumSeq(Tail(s))

Checksum(len, msgid, payload) == (len + msgid + SumSeq(payload)) % (MaxByte + 1)

ParseIdle == [st |-> "waiting-for-start", len |-> 0, msgid |-> 0, payload |-> <<>>]

\* One byte through the codec: the next parse state, and the completed frame
\* if this byte completed one.
ParseChar(p, c) ==
    CASE p.st = "waiting-for-start" ->
           [p |-> IF c = MAVLINK_STX THEN [ParseIdle EXCEPT !.st = "reading-length"]
                                     ELSE ParseIdle,
            done |-> FALSE, msgid |-> 0, payload |-> <<>>]
      [] p.st = "reading-length" ->
           [p |-> [p EXCEPT !.st = "reading-sysid", !.len = c],
            done |-> FALSE, msgid |-> 0, payload |-> <<>>]
      [] p.st = "reading-sysid" ->
           [p |-> [p EXCEPT !.st = "reading-compid"],
            done |-> FALSE, msgid |-> 0, payload |-> <<>>]
      [] p.st = "reading-compid" ->
           [p |-> [p EXCEPT !.st = "reading-msgid"],
            done |-> FALSE, msgid |-> 0, payload |-> <<>>]
      [] p.st = "reading-msgid" ->
           [p |-> [p EXCEPT !.st = IF p.len = 0 THEN "verifying-checksum"
                                                ELSE "reading-payload",
                            !.msgid = c],
            done |-> FALSE, msgid |-> 0, payload |-> <<>>]
      [] p.st = "reading-payload" ->
           [p |-> [p EXCEPT !.st = IF Len(p.payload) + 1 = p.len
                                   THEN "verifying-checksum"
                                   ELSE "reading-payload",
                            !.payload = Append(p.payload, c)],
            done |-> FALSE, msgid |-> 0, payload |-> <<>>]
      [] p.st = "verifying-checksum" ->
           [p |-> ParseIdle,
            done |-> (c = Checksum(p.len, p.msgid, p.payload)),
            msgid |-> p.msgid, payload |-> p.payload]

\* Byte i of a received payload; a payload shorter than the message
\* structure is zero-filled by the decoder.
PayloadByte(payload, i) == IF i <= Len(payload) THEN payload[i] ELSE 0

\* mavlink_msg_jfi_decode, then data(jfi_msg_.data, jfi_msg_.data + len):
\* the callback's arguments for a frame payload. `junk` stands for what lies
\* behind the data array when the declared length exceeds its capacity.
JfiArgs(payload, junk) ==
    [tid |-> PayloadByte(payload, 1),
     data |-> [i \in 1..PayloadByte(payload, 2) |->
                 IF i <= JfiDataCap THEN PayloadByte(payload, 2 + i)
                                    ELSE junk[i - JfiDataCap]]]

\* How many bytes behind the data array the declared length reaches.
Overrun(payload) ==
    IF PayloadByte(payload, 2) > JfiDataCap
    THEN PayloadByte(payload, 2) - JfiDataCap ELSE 0

\* No callback is being invoked.
NoArgs == [tid |-> -1, data |-> <<>>]

Min(a, b) == IF a <= b THEN a ELSE b

\* A send that copies all of data and declares its full length.
JfiStruct_Untruncated(tid, data, pad) == <<tid, Len(data)>> \o data \o pad

\* send(tid, data): jfi_msg.tid, the first min(size, capacity) bytes of
\* data, their count, and (the structure being a local that is not
\* cleared) `pad` for the rest of the data array.
JfiStruct(tid, data, pad) ==
    <<tid, Min(Len(data), JfiDataCap)>>
        \o SubSeq(data, 1, Min(Len(data), JfiDataCap)) \o pad

\* mavlink_msg_jfi_encode and mavlink_msg_to_send_buffer: the bytes of the
\* frame carrying `struct` for identity (sid, cid).
FrameOf(msgid, struct, sid, cid) ==
    <<MAVLINK_STX, Len(struct), sid, cid, msgid>> \o struct
        \o <<Checksum(Len(struct), msgid, struct)>>

\* The chunks a read() can return: 1..MaxRead arbitrary bytes.
Chunks == UNION {[1..n -> Byte] : n \in 1..MaxRead}

(* ------------------------------ port ---------------------------------- *)

\* A switch whose every case applies the default speed.
SpeedFor_AllDefault(baud) == B115200

\* The speed openPort applies for a requested baud rate.
SpeedFor(baud) ==
    CASE baud = 9600 -> B9600
      [] baud = 19200 -> B19200
      [] baud = 38400 -> B38400
      [] baud = 57600 -> B57600
      [] baud = 115200 -> B115200
      [] OTHER -> B115200

\* The descriptor ::open returns: the lowest one not in use.
LowestFree == CHOOSE d \in Fds \ osOpen : \A e \in Fds \ osOpen : d <= e

Init ==
    /\ fd_ = NoFd
    /\ running_ = FALSE
    /\ receive_callback_ = FALSE
    /\ fd_mutex_ = "free"
    /\ osOpen = {}
    /\ osSpeed = [d \in Fds |-> 0]
    /\ cpc = "idle"
    /\ cctx = "api"
    /\ ret = FALSE
    /\ baud_rate = 0
    /\ rpc = "none"
    /\ rfd = NoFd
    /\ rx = <<>>
    /\ parse = ParseIdle
    /\ aborted = FALSE
    /\ joinable = FALSE
    /\ dataReady = FALSE
    /\ system_id_ = 1
    /\ component_id_ = 1
    /\ cb_args = NoArgs
    /\ line = <<>>
    /\ fed = <<>>
    /\ delivered = <<>>
    /\ sent = <<>>


(* --------------------------- caller thread ---------------------------- *)

Unlocked == fd_mutex_ = "free"

\* init(recv_cb, port_name, baud_rate, ...): store the callback and call
\* openPort; the rest of init runs in InitAfterOpen.
CallInit(cb, baud, sid, cid) ==
    /\ ~aborted /\ cpc = "idle"
    /\ receive_callback_' = cb
    /\ system_id_' = sid
    /\ component_id_' = cid
    /\ baud_rate' = baud
    /\ cctx' = "init"
    /\ cpc' = "open_lock"
    /\ UNCHANGED <<portVars, running_, fd_mutex_, ret, recvVars, aborted,
                   joinable, dataReady, codecVars>>

CallOpenPort(baud) ==
    /\ ~aborted /\ cpc = "idle"
    /\ baud_rate' = baud
    /\ cctx' = "api"
    /\ cpc' = "open_lock"
    /\ UNCHANGED <<fd_, running_, receive_callback_, idVars, fd_mutex_,
                   osOpen, osSpeed, ret, recvVars, aborted, joinable,
                   dataReady, codecVars>>

\* openPort without the "already open" test: always goes on to ::open.
OpenLock_NoCheck ==
    /\ ~aborted /\ cpc = "open_lock" /\ Unlocked
    /\ fd_mutex_' = "caller"
    /\ cpc' = "open_sys"
    /\ UNCHANGED <<portVars, running_, receive_callback_, idVars, cctx, ret,
                   baud_rate, recvVars, aborted, joinable, dataReady,
                   codecVars>>

\* openPort: take the mutex; with a descriptor already held return true at
\* once (the lock_guard releases on return), else enter ::open.
OpenLock ==
    /\ ~aborted /\ cpc = "open_lock" /\ Unlocked
    /\ IF fd_ >= 0
       THEN /\ ret' = TRUE
            /\ cpc' = "open_ret"
            /\ UNCHANGED fd_mutex_
       ELSE /\ fd_mutex_' = "caller"
            /\ cpc' = "open_sys"
            /\ UNCHANGED ret
    /\ UNCHANGED <<portVars, running_, receive_callback_, idVars, cctx,
                   baud_rate, recvVars, aborted, joinable, dataReady,
                   codecVars>>

\* fd_ = ::open(...): the OS hands out its lowest free descriptor or fails.
OpenSys ==
    /\ ~aborted /\ cpc = "open_sys"
    /\ \E ok \in BOOLEAN :
         IF ok /\ Fds \ osOpen # {}
         THEN /\ fd_' = LowestFree
              /\ osOpen' = osOpen \cup {LowestFree}
              /\ osSpeed' = [osSpeed EXCEPT ![LowestFree] = 0]
              /\ cpc' = "getattr_sys"
              /\ UNCHANGED <<fd_mutex_, ret>>
         ELSE /\ fd_' = NoFd
              /\ fd_mutex_' = "free"
              /\ ret' = FALSE
              /\ cpc' = "open_ret"
              /\ UNCHANGED <<osOpen, osSpeed>>
    /\ UNCHANGED <<running_, receive_callback_, idVars, cctx, baud_rate,
                   recvVars, aborted, joinable, dataReady, codecVars>>

\* tcgetattr(fd_, &tty)
GetAttrSys ==
    /\ ~aborted /\ cpc = "getattr_sys"
    /\ \E ok \in BOOLEAN : cpc' = IF ok THEN "setattr_sys" ELSE "failclose_sys"
    /\ UNCHANGED <<portVars, running_, receive_callback_, idVars, fd_mutex_,
                   cctx, ret, baud_rate, recvVars, aborted, joinable,
                   dataReady, codecVars>>

\* tcsetattr(fd_, TCSANOW, &tty) with the mapped speed, then tcflush and
\* return true.
SetAttrSys ==
    /\ ~aborted /\ cpc = "setattr_sys"
    /\ \E ok \in BOOLEAN :
         IF ok
         THEN /\ osSpeed' = [osSpeed EXCEPT ![fd_] = SpeedFor(baud_rate)]
              /\ fd_mutex_' = "free"
              /\ ret' = TRUE
              /\ cpc' = "open_ret"
         ELSE /\ cpc' = "failclose_sys"
              /\ UNCHANGED <<osSpeed, fd_mutex_, ret>>
    /\ UNCHANGED <<fd_, osOpen, running_, receive_callback_, idVars, cctx,
                   baud_rate, recvVars, aborted, joinable, dataReady,
                   codecVars>>

\* The failure path without its ::close(fd_): the descriptor stays open.
FailCloseSys_Leak ==
    /\ ~aborted /\ cpc = "failclose_sys"
    /\ fd_' = NoFd
    /\ fd_mutex_' = "free"
    /\ ret' = FALSE
    /\ cpc' = "open_ret"
    /\ UNCHANGED <<osOpen, osSpeed, running_, receive_callback_, idVars, cctx,
                   baud_rate, recvVars, aborted, joinable, dataReady,
                   codecVars>>

\* The failure path of tcgetattr / tcsetattr: ::close(fd_); fd_ = -1;
\* return false. The closed descriptor keeps no speed.
FailCloseSys ==
    /\ ~aborted /\ cpc = "failclose_sys"
    /\ osOpen' = osOpen \ {fd_}
    /\ osSpeed' = [osSpeed EXCEPT ![fd_] = 0]
    /\ fd_' = NoFd
    /\ fd_mutex_' = "free"
    /\ ret' = FALSE
    /\ cpc' = "open_ret"
    /\ UNCHANGED <<running_, receive_callback_, idVars, cctx,
                   baud_rate, recvVars, aborted, joinable, dataReady,
                   codecVars>>

\* openPort called directly has returned ret (the call's locals are gone).
OpenReturn ==
    /\ ~aborted /\ cpc = "open_ret" /\ cctx = "api"
    /\ cpc' = "idle"
    /\ ret' = FALSE
    /\ baud_rate' = 0
    /\ UNCHANGED <<portVars, running_, receive_callback_, idVars, fd_mutex_,
                   cctx, recvVars, aborted, joinable, dataReady, codecVars>>

\* init that starts a thread even when one is already running.
InitAfterOpen_Restart ==
    /\ ~aborted /\ cpc = "open_ret" /\ cctx = "init"
    /\ IF ret
       THEN running_' = TRUE /\ rpc' = "top" /\ joinable' = TRUE
       ELSE UNCHANGED <<running_, rpc, joinable>>
    /\ cpc' = "init_ret"
    /\ UNCHANGED <<portVars, receive_callback_, idVars, fd_mutex_, cctx, ret,
                   baud_rate, rfd, rx, parse, cb_args, aborted, dataReady,
                   codecVars>>

\* init that starts the thread whatever openPort returned.
InitAfterOpen_AlwaysStart ==
    /\ ~aborted /\ cpc = "open_ret" /\ cctx = "init"
    /\ running_' = TRUE
    /\ IF joinable
       THEN aborted' = TRUE /\ UNCHANGED <<rpc, joinable>>
       ELSE rpc' = "top" /\ joinable' = TRUE /\ UNCHANGED aborted
    /\ cpc' = "init_ret"
    /\ UNCHANGED <<portVars, receive_callback_, idVars, fd_mutex_, cctx, ret,
                   baud_rate, rfd, rx, parse, cb_args, dataReady, codecVars>>

\* init after openPort returned: if (ret) { running_ = true; start the
\* thread } (assigning to a joinable std::thread calls std::terminate).
InitAfterOpen ==
    /\ ~aborted /\ cpc = "open_ret" /\ cctx = "init"
    /\ IF ret
       THEN /\ running_' = TRUE
            /\ IF joinable
               THEN aborted' = TRUE /\ UNCHANGED <<rpc, joinable>>
               ELSE rpc' = "top" /\ joinable' = TRUE /\ UNCHANGED aborted
       ELSE UNCHANGED <<running_, rpc, aborted, joinable>>
    /\ cpc' = "init_ret"
    /\ UNCHANGED <<portVars, receive_callback_, idVars, fd_mutex_, cctx, ret,
                   baud_rate, rfd, rx, parse, cb_args, dataReady, codecVars>>

\* init has returned ret.
InitReturn ==
    /\ ~aborted /\ cpc = "init_ret"
    /\ cpc' = "idle"
    /\ cctx' = "api"
    /\ ret' = FALSE
    /\ baud_rate' = 0
    /\ UNCHANGED <<portVars, running_, receive_callback_, idVars, fd_mutex_,
                   recvVars, aborted, joinable, dataReady, codecVars>>

CallClosePort ==
    /\ ~aborted /\ cpc = "idle"
    /\ cctx' = "api"
    /\ cpc' = "close_lock"
    /\ UNCHANGED <<portVars, running_, receive_callback_, idVars, fd_mutex_,
                   ret, baud_rate, recvVars, aborted, joinable, dataReady,
                   codecVars>>

\* closePort: take the mutex; with a descriptor held enter ::close, else
\* return.
CloseLock ==
    /\ ~aborted /\ cpc = "close_lock" /\ Unlocked
    /\ IF fd_ >= 0
       THEN fd_mutex_' = "caller" /\ cpc' = "close_sys"
       ELSE cpc' = "close_ret" /\ UNCHANGED fd_mutex_
    /\ UNCHANGED <<portVars, running_, receive_callback_, idVars, cctx, ret,
                   baud_rate, recvVars, aborted, joinable, dataReady,
                   codecVars>>

\* closePort that forgets fd_ = -1.
CloseSys_KeepFd ==
    /\ ~aborted /\ cpc = "close_sys"
    /\ osOpen' = osOpen \ {fd_}
    /\ osSpeed' = [osSpeed EXCEPT ![fd_] = 0]
    /\ fd_mutex_' = "free"
    /\ cpc' = "close_ret"
    /\ UNCHANGED <<fd_, running_, receive_callback_, idVars, cctx,
                   ret, baud_rate, recvVars, aborted, joinable, dataReady,
                   codecVars>>

\* ::close(fd_); fd_ = -1; return. The closed descriptor keeps no speed.
CloseSys ==
    /\ ~aborted /\ cpc = "close_sys"
    /\ osOpen' = osOpen \ {fd_}
    /\ osSpeed' = [osSpeed EXCEPT ![fd_] = 0]
    /\ fd_' = NoFd
    /\ fd_mutex_' = "free"
    /\ cpc' = "close_ret"
    /\ UNCHANGED <<running_, receive_callback_, idVars, cctx, ret,
                   baud_rate, recvVars, aborted, joinable, dataReady,
                   codecVars>>

\* closePort has returned: to the caller, or into the end of the destructor.
CloseReturn ==
    /\ ~aborted /\ cpc = "close_ret"
    /\ cpc' = IF cctx = "dtor" THEN "destroyed" ELSE "idle"
    /\ UNCHANGED <<portVars, running_, receive_callback_, idVars, fd_mutex_,
                   cctx, ret, baud_rate, recvVars, aborted, joinable,
                   dataReady, codecVars>>

\* send(tid, data): encode a frame and call writeData.
CallSend ==
    /\ ~aborted /\ cpc = "idle"
    /\ cpc' = "write_lock"
    /\ UNCHANGED <<portVars, running_, receive_callback_, idVars, fd_mutex_,
                   cctx, ret, baud_rate, recvVars, aborted, joinable,
                   dataReady, codecVars>>

\* A writeData that issues the write without testing fd_.
WriteLock_NoCheck ==
    /\ ~aborted /\ cpc = "write_lock" /\ Unlocked
    /\ fd_mutex_' = "caller" /\ cpc' = "write_sys"
    /\ UNCHANGED <<portVars, running_, receive_callback_, idVars, cctx, ret,
                   baud_rate, recvVars, aborted, joinable, dataReady,
                   codecVars>>

\* writeData: take the mutex; return if fd_ < 0, else enter ::write.
WriteLock ==
    /\ ~aborted /\ cpc = "write_lock" /\ Unlocked
    /\ IF fd_ < 0
       THEN cpc' = "idle" /\ UNCHANGED fd_mutex_
       ELSE fd_mutex_' = "caller" /\ cpc' = "write_sys"
    /\ UNCHANGED <<portVars, running_, receive_callback_, idVars, cctx, ret,
                   baud_rate, recvVars, aborted, joinable, dataReady,
                   codecVars>>

\* ::write(fd_, ...) returns (a failure is only logged).
WriteSys ==
    /\ ~aborted /\ cpc = "write_sys"
    /\ fd_mutex_' = "free"
    /\ cpc' = "idle"
    /\ UNCHANGED <<portVars, running_, receive_callback_, idVars, cctx, ret,
                   baud_rate, recvVars, aborted, joinable, dataReady,
                   codecVars>>

\* ~JFiComm: running_ = false.
CallDtor ==
    /\ ~aborted /\ cpc = "idle"
    /\ running_' = FALSE
    /\ cctx' = "dtor"
    /\ cpc' = "dtor_join"
    /\ UNCHANGED <<portVars, receive_callback_, idVars, fd_mutex_, ret,
                   baud_rate, recvVars, aborted, joinable, dataReady,
                   codecVars>>

\* A join that does not wait for the thread.
JoinReturns_NoWait == TRUE

\* join() returns once the receiver thread's function has returned.
JoinReturns == rpc = "exited"

\* A destructor that goes to closePort without joining.
DtorJoin_NoJoin ==
    /\ ~aborted /\ cpc = "dtor_join"
    /\ cpc' = "close_lock"
    /\ UNCHANGED <<portVars, running_, receive_callback_, idVars, fd_mutex_,
                   cctx, ret, baud_rate, recvVars, aborted, joinable,
                   dataReady, codecVars>>

\* ~JFiComm: if (joinable) join(); then closePort().
DtorJoin ==
    /\ ~aborted /\ cpc = "dtor_join"
    /\ IF joinable
       THEN JoinReturns /\ joinable' = FALSE
       ELSE UNCHANGED joinable
    /\ cpc' = "close_lock"
    /\ UNCHANGED <<portVars, running_, receive_callback_, idVars, fd_mutex_,
                   cctx, ret, baud_rate, recvVars, aborted, dataReady,
                   codecVars>>

(* -------------------------- receiver thread --------------------------- *)

\* A loop that never looks at the flag: while (true).
RecvTop_NoPoll ==
    /\ ~aborted /\ rpc = "top"
    /\ rpc' = "lock"
    /\ UNCHANGED <<portVars, running_, receive_callback_, idVars, fd_mutex_,
                   callerVars, rfd, rx, parse, cb_args, aborted, joinable,
                   dataReady, codecVars>>

\* while (running_): the only exit of recvMavLoop.
RecvTop ==
    /\ ~aborted /\ rpc = "top"
    /\ rpc' = IF running_ THEN "lock" ELSE "exited"
    /\ UNCHANGED <<portVars, running_, receive_callback_, idVars, fd_mutex_,
                   callerVars, rfd, rx, parse, cb_args, aborted, joinable,
                   dataReady, codecVars>>

\* A loop that keeps the guard for the rest of the iteration.
RecvLock_KeepLocked ==
    /\ ~aborted /\ rpc = "lock" /\ Unlocked
    /\ fd_mutex_' = "recv"
    /\ rpc' = IF fd_ < 0 THEN "sleep_locked" ELSE "read_arg"
    /\ UNCHANGED <<portVars, running_, receive_callback_, idVars, callerVars,
                   rfd, rx, parse, cb_args, aborted, joinable, dataReady,
                   codecVars>>

\* { lock_guard; if (fd_ < 0) { sleep; continue; } }: with the port closed
\* the thread sleeps holding the mutex; with it open the guard is released
\* before the read.
RecvLock ==
    /\ ~aborted /\ rpc = "lock" /\ Unlocked
    /\ IF fd_ < 0
       THEN fd_mutex_' = "recv" /\ rpc' = "sleep_locked"
       ELSE rpc' = "read_arg" /\ UNCHANGED fd_mutex_
    /\ UNCHANGED <<portVars, running_, receive_callback_, idVars, callerVars,
                   rfd, rx, parse, cb_args, aborted, joinable, dataReady,
                   codecVars>>

\* The 10 ms sleep ends; continue releases the guard.
RecvWake ==
    /\ ~aborted /\ rpc = "sleep_locked"
    /\ fd_mutex_' = "free"
    /\ rpc' = "top"
    /\ UNCHANGED <<portVars, running_, receive_callback_, idVars, callerVars,
                   rfd, rx, parse, cb_args, aborted, joinable, dataReady,
                   codecVars>>

\* ::read(fd_, ...): the argument fd_ is loaded, without the mutex.
RecvReadArg ==
    /\ ~aborted /\ rpc = "read_arg"
    /\ rfd' = fd_
    /\ rpc' = "read_call"
    /\ UNCHANGED <<portVars, running_, receive_callback_, idVars, fd_mutex_,
                   callerVars, rx, parse, cb_args, aborted, joinable,
                   dataReady, codecVars>>

\* The thread enters read(rfd): on a descriptor that is not open the call
\* fails at once (n < 0, 10 ms backoff), else the thread is inside the read.
RecvReadEnter ==
    /\ ~aborted /\ rpc = "read_call"
    /\ IF rfd \in osOpen
       THEN rpc' = "read_sys" /\ UNCHANGED rfd
       ELSE rpc' = "backoff" /\ rfd' = NoFd
    /\ UNCHANGED <<portVars, running_, receive_callback_, idVars, fd_mutex_,
                   callerVars, rx, parse, cb_args, aborted, joinable,
                   dataReady, codecVars>>

\* The blocking read returns the bytes that arrived (n > 0).
RecvReadData ==
    /\ ~aborted /\ rpc = "read_sys" /\ dataReady
    /\ \E chunk \in Chunks : rx' = chunk
    /\ dataReady' = FALSE
    /\ rfd' = NoFd
    /\ rpc' = "parse"
    /\ UNCHANGED <<portVars, running_, receive_callback_, idVars, fd_mutex_,
                   callerVars, parse, cb_args, aborted, joinable, codecVars>>

\* A failed read that leaves the loop (return instead of continue).
RecvReadFail_Return ==
    /\ ~aborted /\ rpc = "read_sys"
    /\ rfd' = NoFd
    /\ rpc' = "exited"
    /\ UNCHANGED <<portVars, running_, receive_callback_, idVars, fd_mutex_,
                   callerVars, rx, parse, cb_args, aborted, joinable,
                   dataReady, codecVars>>

\* The blocking read returns without data: an I/O error (n < 0) or an end of
\* file (n = 0); both continue after a backoff sleep.
RecvReadFail ==
    /\ ~aborted /\ rpc = "read_sys"
    /\ rfd' = NoFd
    /\ rpc' = "backoff"
    /\ UNCHANGED <<portVars, running_, receive_callback_, idVars, fd_mutex_,
                   callerVars, rx, parse, cb_args, aborted, joinable,
                   dataReady, codecVars>>

\* The backoff sleep (10 ms after an error, 5 ms after an empty read) ends.
RecvBackoff ==
    /\ ~aborted /\ rpc = "backoff"
    /\ rpc' = "top"
    /\ UNCHANGED <<portVars, running_, receive_callback_, idVars, fd_mutex_,
                   callerVars, rfd, rx, parse, cb_args, aborted, joinable,
                   dataReady, codecVars>>

\* A for loop that parses only the first byte of each read.
AfterByte_FirstOnly(rest) == "top"

\* Where the loop goes once the bytes left of the read are `rest`.
AfterByte(rest) == IF rest = <<>> THEN "top" ELSE "parse"

\* A parse step that dispatches a completed frame whatever its message id.
ParseStep_AnyId ==
    /\ ~aborted /\ rpc = "parse"
    /\ LET r == ParseChar(parse, Head(rx)) IN
         /\ parse' = r.p
         /\ rx' = Tail(rx)
         /\ IF r.done /\ receive_callback_
            THEN /\ rpc' = "callback"
                 /\ \E junk \in [1..Overrun(r.payload) -> Byte] :
                      cb_args' = JfiArgs(r.payload, junk)
            ELSE /\ rpc' = AfterByte(Tail(rx))
                 /\ cb_args' = NoArgs
    /\ UNCHANGED <<portVars, running_, receive_callback_, idVars, fd_mutex_,
                   callerVars, rfd, aborted, joinable, dataReady>>

\* One pass of the for loop: a byte through mavlink_parse_char; a completed
\* frame of the recognized id is decoded and, with a callback registered,
\* dispatched with (tid, data).
ParseStep ==
    /\ ~aborted /\ rpc = "parse"
    /\ LET r == ParseChar(parse, Head(rx)) IN
         /\ parse' = r.p
         /\ rx' = Tail(rx)
         /\ IF r.done /\ r.msgid = MAVLINK_MSG_ID_JFI /\ receive_callback_
            THEN /\ rpc' = "callback"
                 /\ \E junk \in [1..Overrun(r.payload) -> Byte] :
                      cb_args' = JfiArgs(r.payload, junk)
            ELSE /\ rpc' = AfterByte(Tail(rx))
                 /\ cb_args' = NoArgs
    /\ UNCHANGED <<portVars, running_, receive_callback_, idVars, fd_mutex_,
                   callerVars, rfd, aborted, joinable, dataReady>>

\* The parse step of the receiver thread.
RecvParse == ParseStep /\ UNCHANGED codecVars

\* The callback calls send(): a frame is encoded and writeData is entered,
\* on the receiver thread.
RecvCallbackSend ==
    /\ ~aborted /\ rpc = "callback"
    /\ rpc' = "cb_write_lock"
    /\ UNCHANGED <<portVars, running_, receive_callback_, idVars, fd_mutex_,
                   callerVars, rfd, rx, parse, cb_args, aborted, joinable,
                   dataReady, codecVars>>

\* writeData on the receiver thread: take the mutex; return if fd_ < 0,
\* else enter ::write.
RecvCbWriteLock ==
    /\ ~aborted /\ rpc = "cb_write_lock" /\ Unlocked
    /\ IF fd_ < 0
       THEN rpc' = "cb_done" /\ UNCHANGED fd_mutex_
       ELSE fd_mutex_' = "recv" /\ rpc' = "cb_write_sys"
    /\ UNCHANGED <<portVars, running_, receive_callback_, idVars, callerVars,
                   rfd, rx, parse, cb_args, aborted, joinable, dataReady,
                   codecVars>>

\* ::write(fd_, ...) returns on the receiver thread; send returns.
RecvCbWriteSys ==
    /\ ~aborted /\ rpc = "cb_write_sys"
    /\ fd_mutex_' = "free"
    /\ rpc' = "cb_done"
    /\ UNCHANGED <<portVars, running_, receive_callback_, idVars, callerVars,
                   rfd, rx, parse, cb_args, aborted, joinable, dataReady,
                   codecVars>>

\* receive_callback_(tid, data) returns.
RecvCallbackReturn ==
    /\ ~aborted /\ rpc \in {"callback", "cb_done"}
    /\ rpc' = AfterByte(rx)
    /\ cb_args' = NoArgs
    /\ UNCHANGED <<portVars, running_, receive_callback_, idVars, fd_mutex_,
                   callerVars, rfd, rx, parse, aborted, joinable, dataReady,
                   codecVars>>

(* --------------------------- specification ---------------------------- *)

Caller ==
    \/ \E a \in InitInputs, baud \in BaudInputs :
          CallInit(a.cb, baud, a.sid, a.cid)
    \/ \E baud \in BaudInputs : CallOpenPort(baud)
    \/ OpenLock
    \/ OpenSys
    \/ GetAttrSys
    \/ SetAttrSys
    \/ FailCloseSys
    \/ OpenReturn
    \/ InitAfterOpen
    \/ InitReturn
    \/ CallClosePort
    \/ CloseLock
    \/ CloseSys
    \/ CloseReturn
    \/ CallSend
    \/ WriteLock
    \/ WriteSys
    \/ CallDtor
    \/ DtorJoin

Receiver ==
    \/ RecvTop
    \/ RecvLock
    \/ RecvWake
    \/ RecvReadArg
    \/ RecvReadEnter
    \/ RecvReadData
    \/ RecvReadFail
    \/ RecvBackoff
    \/ RecvParse
    \/ RecvCallbackSend
    \/ RecvCbWriteLock
    \/ RecvCbWriteSys
    \/ RecvCallbackReturn

\* The peer sends bytes: they wait on the line until a read takes them.
DataArrives ==
    /\ ~dataReady
    /\ dataReady' = TRUE
    /\ UNCHANGED <<portVars, running_, receive_callback_, idVars, fd_mutex_,
                   callerVars, recvVars, aborted, joinable, codecVars>>

Next == Caller \/ Receiver \/ DataArrives

Spec == Init /\ [][Next]_vars

\* Steps the threads take on their own once they are where they are (the
\* caller's choice of the next call, the arrival of bytes and an I/O error
\* ending a blocked read are not among them).
CallerStep ==
    \/ OpenLock \/ OpenSys \/ GetAttrSys \/ SetAttrSys \/ FailCloseSys
    \/ OpenReturn \/ InitAfterOpen \/ InitReturn \/ CloseLock \/ CloseSys
    \/ CloseReturn \/ WriteLock \/ WriteSys \/ DtorJoin

ReceiverStep ==
    \/ RecvTop \/ RecvLock \/ RecvWake \/ RecvReadArg \/ RecvReadEnter
    \/ RecvReadData \/ RecvBackoff \/ RecvParse \/ RecvCbWriteLock
    \/ RecvCbWriteSys \/ RecvCallbackReturn

SpecFair == Spec /\ WF_vars(CallerStep) /\ WF_vars(ReceiverStep)

(* ------------------------------ port only ----------------------------- *)
\* openPort and closePort called with every supported rate and with
\* unsupported ones, no receiver thread running.

SupportedBauds == {9600, 19200, 38400, 57600, 115200}
AllBauds == SupportedBauds \cup {0, 12345}

NextBaud ==
    \/ \E baud \in AllBauds : CallOpenPort(baud)
    \/ OpenLock
    \/ OpenSys
    \/ GetAttrSys
    \/ SetAttrSys
    \/ FailCloseSys
    \/ OpenReturn
    \/ CallClosePort
    \/ CloseLock
    \/ CloseSys
    \/ CloseReturn

SpecBaud == Init /\ [][NextBaud]_vars

(* ---------------------------- loopback line --------------------------- *)
\* The receiver loop of one transport reading a line on which frames and
\* foreign bytes are written. `sent` logs what was written, in order.

\* send's data arguments: up to one byte more than the capacity.
SendData == UNION {[1..n -> Byte] : n \in 0..(JfiDataCap + 1)}

\* Runs of foreign bytes.
Garbage == UNION {[1..n -> Byte] : n \in 1..MaxGarbage}

\* Payloads of frames of another message id.
ForeignPayloads == {<<>>, <<0>>, <<MAVLINK_STX>>}

LogKinds(k) == {i \in 1..Len(sent) : sent[i].kind = k}

\* The loop is inside the blocking read with nothing left to parse.
Quiescent == rpc = "read_sys" /\ rx = <<>> /\ line = <<>> /\ cb_args = NoArgs

\* A transport whose init succeeded on descriptor 0; its loop is at the top.
InitCodec ==
    /\ fd_ = 0
    /\ running_ = TRUE
    /\ \E a \in InitInputs :
         /\ receive_callback_ = a.cb
         /\ system_id_ = a.sid
         /\ component_id_ = a.cid
    /\ fd_mutex_ = "free"
    /\ osOpen = {0}
    /\ osSpeed = [d \in Fds |-> IF d = 0 THEN B115200 ELSE 0]
    /\ cpc = "idle"
    /\ cctx = "api"
    /\ ret = FALSE
    /\ baud_rate = 0
    /\ rpc = "top"
    /\ rfd = NoFd
    /\ rx = <<>>
    /\ parse = ParseIdle
    /\ aborted = FALSE
    /\ joinable = TRUE
    /\ dataReady = FALSE
    /\ cb_args = NoArgs
    /\ line = <<>>
    /\ fed = <<>>
    /\ delivered = <<>>
    /\ sent = <<>>

\* Bytes are put on the line while the loop waits in the read.
PutOnLine(bytes, entry) ==
    /\ rpc = "read_sys" /\ Len(line) <= 1
    /\ line' = line \o bytes
    /\ fed' = fed \o bytes
    /\ sent' = Append(sent, entry)
    /\ UNCHANGED <<portVars, running_, receive_callback_, idVars, fd_mutex_,
                   callerVars, recvVars, aborted, joinable, dataReady,
                   delivered>>

\* send(tid, data) with this transport's identity; the frame reaches the
\* line whole.
CodecSend(tid, data, pad) ==
    /\ LogKinds("send") = {}
    /\ PutOnLine(FrameOf(MAVLINK_MSG_ID_JFI, JfiStruct(tid, data, pad),
                         system_id_, component_id_),
                 [kind |-> "send", tid |-> tid, data |-> data])

\* A well-formed frame of another message id arrives on a line that
\* carried no foreign bytes.
CodecForeign(msgid, payload) ==
    /\ LogKinds("foreign") = {} /\ LogKinds("noise") = {}
    /\ PutOnLine(FrameOf(msgid, payload, system_id_, component_id_),
                 [kind |-> "foreign", tid |-> msgid, data |-> payload])

\* Foreign bytes arrive before anything else.
CodecNoise(bytes) ==
    /\ sent = <<>>
    /\ PutOnLine(bytes, [kind |-> "noise", tid |-> 0, data |-> bytes])

\* A read that clears the parse state before handing over its bytes.
CodecRead_ResetParse(n) ==
    /\ rpc = "read_sys" /\ n <= Len(line)
    /\ rx' = SubSeq(line, 1, n)
    /\ line' = SubSeq(line, n + 1, Len(line))
    /\ parse' = ParseIdle
    /\ rfd' = NoFd
    /\ rpc' = "parse"
    /\ UNCHANGED <<portVars, running_, receive_callback_, idVars, fd_mutex_,
                   callerVars, cb_args, aborted, joinable, dataReady, fed,
                   delivered, sent>>

\* ::read returns the next n bytes of the line (0 < n); the parse state is
\* not touched.
CodecRead(n) ==
    /\ rpc = "read_sys" /\ n <= Len(line)
    /\ rx' = SubSeq(line, 1, n)
    /\ line' = SubSeq(line, n + 1, Len(line))
    /\ rfd' = NoFd
    /\ rpc' = "parse"
    /\ UNCHANGED <<portVars, running_, receive_callback_, idVars, fd_mutex_,
                   callerVars, parse, cb_args, aborted, joinable, dataReady,
                   fed, delivered, sent>>

\* The parse step, with the callback's invocation recorded.
CodecParse ==
    /\ ParseStep
    /\ delivered' = IF rpc' = "callback" THEN Append(delivered, cb_args')
                                         ELSE delivered
    /\ UNCHANGED <<line, fed, sent>>

NextCodec ==
    \/ \E bytes \in Garbage : CodecNoise(bytes)
    \/ \E tid \in Byte, data \in SendData :
         \E pad \in [1..(JfiDataCap - Min(Len(data), JfiDataCap)) -> Byte] :
           CodecSend(tid, data, pad)
    \/ \E payload \in ForeignPayloads :
         CodecForeign(MAVLINK_MSG_ID_JFI - 1, payload)
    \/ \E n \in 1..MaxRead : CodecRead(n)
    \/ CodecParse
    \/ RecvCallbackReturn
    \/ RecvReadFail
    \/ RecvBackoff
    \/ RecvTop
    \/ RecvLock
    \/ RecvReadArg
    \/ RecvReadEnter

SpecCodec == InitCodec /\ [][NextCodec]_vars

(* --------------------------- a second loop ---------------------------- *)

\* The loop, at the top of an iteration, finds the flag cleared by a
\* teardown and exits; a transport constructed afterwards opens the same
\* line (tcflush drops what was unread) and its init starts a new loop.
\* Neither `message` nor `status` is initialized where recvMavLoop declares
\* them and the codec is addressed by the channel MAVLINK_COMM_0, so the
\* state the new loop's first byte meets is either a fresh one or the one
\* the earlier loop left. `fed` and `delivered` start again for the new loop.
CodecRestart ==
    /\ ~aborted /\ rpc = "top" /\ rx = <<>>
    /\ LogKinds("restart") = {}
    /\ parse' \in {ParseIdle, parse}
    /\ line' = <<>>
    /\ fed' = <<>>
    /\ delivered' = <<>>
    /\ sent' = Append(sent, [kind |-> "restart", tid |-> 0, data |-> <<>>])
    /\ UNCHANGED <<portVars, running_, receive_callback_, idVars, fd_mutex_,
                   callerVars, rpc, rfd, rx, cb_args, aborted, joinable,
                   dataReady>>

NextRestart == NextCodec \/ CodecRestart

SpecRestart == InitCodec /\ [][NextRestart]_vars

(* ------------------------------ claims -------------------------------- *)

CallerInDescriptorOp ==
    cpc \in {"open_sys", "getattr_sys", "setattr_sys", "failclose_sys",
             "close_sys", "write_sys"}

RecvInDescriptorOp == rpc \in {"read_call", "read_sys"}

TeardownClosing ==
    cctx = "dtor" /\ cpc \in {"close_lock", "close_sys", "close_ret", "destroyed"}

LoopStopped == rpc \in {"none", "exited"}

\* C1: every descriptor operation (open, close, write, read) runs with
\* fd_mutex_ held by its thread, so the caller's operation and the receiver's
\* read are never in progress together.
C1_DescriptorOpsSerialized ==
    /\ CallerInDescriptorOp => fd_mutex_ = "caller"
    /\ RecvInDescriptorOp => fd_mutex_ = "recv"
    /\ ~(CallerInDescriptorOp /\ rpc = "read_sys")

\* C2: the receiver loop never enters read() on a descriptor that is closed
\* at that moment: when it enters the read the port is open and the
\* descriptor it passes is the open one.
C2_NoReadOnClosedPort ==
    [][(rpc = "read_call" /\ rpc' # "read_call")
          => (fd_ >= 0 /\ rfd = fd_ /\ rfd \in osOpen)]_vars

\* C3: teardown runs "clear the flag, join, close": while the destructor is
\* in closePort (and after), the flag is clear and the loop has fully exited.
C3_TeardownClosesAfterLoopExit ==
    TeardownClosing => (~running_ /\ LoopStopped /\ ~joinable)

C3_Witness ==
    cctx = "dtor" /\ cpc = "close_sys" /\ rpc = "exited" /\ fd_ \in osOpen

\* C4: once teardown has completed the loop is not running, and no step
\* afterwards (bytes arriving on the line included) moves the receiver or
\* invokes the callback.
C4_NoReceiveAfterTeardown ==
    [][cpc = "destroyed"
         => (LoopStopped /\ rpc' = rpc /\ rpc' # "callback")]_vars

C4_Witness == cpc = "destroyed" /\ rpc = "exited" /\ dataReady

\* C5 as claimed: from every state in which teardown has cleared the flag,
\* the loop exits, the join returns and teardown completes with the port
\* closed.
C5_TeardownAlwaysCompletes ==
    (cpc = "dtor_join") ~> (cpc = "destroyed" /\ fd_ = NoFd)

\* C5, amended: teardown completes with the port closed unless the loop stays
\* inside one blocking read() for ever (the flag is polled only at the top of
\* an iteration, and a read on a silent line does not return).
C5_TeardownCompletesUnlessReadBlocks ==
    \/ <>[](rpc = "read_sys")
    \/ ((cpc = "dtor_join") ~> (cpc = "destroyed" /\ fd_ = NoFd))

C5_Witness == cpc = "destroyed" /\ rpc = "exited" /\ fd_ = NoFd /\ ~joinable

\* C6: a thread exists only if started by an init whose openPort returned
\* true with the port open; an init whose openPort failed returns false and
\* changes neither the running flag (false when no thread exists) nor the
\* thread.
C6_NoThreadWithoutPort ==
    /\ [](rpc = "none" => ~running_)
    /\ [][(rpc = "none" /\ rpc' # "none")
            => (cpc = "open_ret" /\ cctx = "init" /\ ret /\ fd_ \in osOpen)]_vars
    /\ [][(cpc = "open_ret" /\ cctx = "init" /\ ~ret /\ cpc' # cpc)
            => (cpc' = "init_ret" /\ ~ret' /\ running_' = running_
                /\ rpc' = rpc /\ joinable' = joinable)]_vars

C6_Witness ==
    cpc = "init_ret" /\ ~ret /\ rpc = "none" /\ ~running_ /\ fd_ = NoFd

\* C7: the loop leaves only from the top of an iteration with the running
\* flag clear; with the flag set the top of the loop goes on to another
\* iteration, whatever the last read or parse did.
C7_LoopExitsOnlyOnFlag ==
    /\ [][(rpc # "exited" /\ rpc' = "exited") => (rpc = "top" /\ ~running_)]_vars
    /\ [][(rpc = "top" /\ running_ /\ rpc' # rpc) => rpc' = "lock"]_vars
    /\ [][(rpc \in {"backoff", "parse", "callback", "cb_write_lock",
                     "cb_write_sys", "cb_done"} /\ rpc' # rpc)
            => rpc' \in {"top", "parse", "callback", "cb_write_lock",
                         "cb_write_sys", "cb_done"}]_vars

\* An iteration that ended on an incomplete frame is followed by another.
C7_Witness ==
    rpc = "lock" /\ running_ /\ parse.st = "verifying-checksum"

HandleClosed == fd_ = NoFd /\ osOpen = {}
HandleOpen == fd_ >= 0 /\ osOpen = {fd_}

\* C8: the handle is closed with no OS resource held, or open holding
\* exactly one; openPort on an open handle returns true and changes
\* neither the descriptor, the resources held nor the line configuration.
C8_OneResourceIdempotentOpen ==
    /\ [](HandleClosed \/ HandleOpen)
    /\ [][(cpc = "open_lock" /\ fd_ >= 0 /\ cpc' # cpc)
            => (cpc' = "open_ret" /\ ret' /\ UNCHANGED <<portVars, fd_mutex_>>)]_vars

\* openPort returned true on a port configured for another speed than the
\* one this call asked for: it found the port open.
C8_Witness ==
    /\ cpc = "open_ret" /\ ret /\ HandleOpen
    /\ osSpeed[fd_] # SpeedFor(baud_rate)

\* C9: when openPort returns false the handle is closed and no descriptor is
\* held, whichever of ::open, tcgetattr and tcsetattr failed.
C9_FailedOpenLeavesClosed ==
    (cpc \in {"open_ret", "init_ret"} /\ ~ret)
        => (HandleClosed /\ fd_mutex_ # "caller")

\* openPort has failed on a transport whose port had been open before (its
\* receiver loop is running).
C9_Witness ==
    cpc = "open_ret" /\ ~ret /\ cctx = "api" /\ joinable /\ running_

\* C10: closePort leaves the handle closed with no resource held, releases
\* only a descriptor that is open (never one twice), and on a closed handle
\* changes nothing.
C10_CloseIdempotent ==
    /\ [](cpc = "close_ret" => (HandleClosed /\ fd_mutex_ # "caller"))
    /\ [](cpc = "close_sys" => fd_ \in osOpen)
    /\ [][(cpc = "close_lock" /\ fd_ < 0 /\ cpc' # cpc)
            => (cpc' = "close_ret"
                /\ UNCHANGED <<portVars, fd_mutex_, running_, recvVars,
                               codecVars>>)]_vars

\* closePort has returned with the handle closed on a transport whose port
\* had been open (its receiver loop is running).
C10_Witness ==
    cpc = "close_ret" /\ cctx = "api" /\ HandleClosed /\ joinable /\ running_


\* C11: send on a port that is closed when writeData holds the lock issues
\* no write, returns to the caller without an error value, and leaves the
\* port, the running flag, the link identity and the mutex as they were; a
\* write is in progress only on an open port, under the lock, also when a
\* close ran between send's call and the lock.
C11_SendOnClosedPortIsNoOp ==
    /\ [](cpc = "write_sys" => (fd_ \in osOpen /\ fd_mutex_ = "caller"))
    /\ [](rpc = "cb_write_sys" => (fd_ \in osOpen /\ fd_mutex_ = "recv"))
    /\ [][(cpc = "write_lock" /\ cpc' # cpc /\ fd_ < 0)
            => (cpc' = "idle" /\ UNCHANGED <<portVars, running_, idVars,
                                             fd_mutex_, ret, aborted>>)]_vars
    /\ [][(cpc = "write_lock" /\ cpc' = "write_sys") => fd_ \in osOpen]_vars

\* send was called and the port was closed before writeData took the lock,
\* with the receiver loop alive.
C11_Witness ==
    cpc = "write_lock" /\ fd_ < 0 /\ fd_mutex_ = "free" /\ running_
        /\ rpc = "lock"

(* ------------------------- claims on the codec ------------------------ *)

\* The send calls logged so far, and what each should deliver.
SendLog == SelectSeq(sent, LAMBDA e : e.kind = "send")
Truncated(data) == SubSeq(data, 1, Min(Len(data), JfiDataCap))
ExpectedDeliveries ==
    [i \in 1..Len(SendLog) |->
        [tid |-> SendLog[i].tid, data |-> Truncated(SendLog[i].data)]]
NoNoise == LogKinds("noise") = {}

\* The bytes of the line the loop has parsed so far.
Consumed == SubSeq(fed, 1, Len(fed) - Len(line) - Len(rx))

\* The callback invocations of one pass over `bytes` from parse state p.
RECURSIVE DecodeAll(_, _, _)
DecodeAll(p, bytes, cb) ==
    IF bytes = <<>> THEN <<>>
    ELSE LET r == ParseChar(p, Head(bytes)) IN
           (IF r.done /\ r.msgid = MAVLINK_MSG_ID_JFI /\ cb
            THEN <<JfiArgs(r.payload, [i \in 1..Overrun(r.payload) |-> 0])>>
            ELSE <<>>) \o DecodeAll(r.p, Tail(bytes), cb)

\* C12: on a line of well-formed frames the callback is invoked once for
\* each completed frame of the recognized id, with data of the declared
\* length, and only with a callback registered; frames of another id invoke
\* nothing and the frames after them are still delivered.
C12_CallbackOncePerRecognizedFrame ==
    /\ ~receive_callback_ => delivered = <<>>
    /\ NoNoise => Len(delivered) <= Len(SendLog)
    /\ (NoNoise /\ Quiescent /\ receive_callback_)
          => /\ Len(delivered) = Len(SendLog)
             /\ \A i \in 1..Len(delivered) :
                   Len(delivered[i].data)
                     = Min(Len(SendLog[i].data), JfiDataCap)

\* A frame of another id, then a frame of the recognized id, both parsed:
\* one callback.
C12_Witness ==
    /\ Quiescent /\ receive_callback_ /\ Len(sent) = 2
    /\ sent[1].kind = "foreign" /\ sent[2].kind = "send"
    /\ Len(delivered) = 1

\* C13: however the reads cut the bytes of the line into chunks, with
\* failed reads in between, the callbacks so far are those of one pass over
\* the bytes parsed so far: the parse state is carried from read to read.
C13_ChunkingDoesNotMatter ==
    delivered = DecodeAll(ParseIdle, Consumed, receive_callback_)

\* The loop is back in the read with half of a sent frame parsed and the
\* rest still on the line.
C13_Witness ==
    /\ rpc = "read_sys" /\ rx = <<>> /\ line # <<>>
    /\ parse.st = "reading-payload" /\ Len(parse.payload) = 1
    /\ Len(sent) = 1 /\ sent[1].kind = "send"

\* Foreign bytes, then one sent frame, all parsed.
GarbageThenFrameParsed ==
    /\ Quiescent /\ receive_callback_ /\ Len(sent) = 2
    /\ sent[1].kind = "noise" /\ sent[2].kind = "send"

HasStartMarker(bytes) == \E i \in 1..Len(bytes) : bytes[i] = MAVLINK_STX

\* C14 as stated: any foreign bytes followed by one sent frame deliver
\* exactly that frame.
C14_GarbageThenValid ==
    GarbageThenFrameParsed => delivered = ExpectedDeliveries

\* C14: foreign bytes none of which is the start marker, followed by one
\* sent frame, deliver exactly that frame, and leave the codec waiting for
\* a start marker when the frame begins.
C14_GarbageWithoutStartThenValid ==
    /\ (GarbageThenFrameParsed /\ ~HasStartMarker(sent[1].data))
          => delivered = ExpectedDeliveries
    /\ (Len(sent) = 1 /\ sent[1].kind = "noise" /\ line = <<>> /\ rx = <<>>
          /\ ~HasStartMarker(sent[1].data))
          => (parse = ParseIdle /\ delivered = <<>>)

\* MaxGarbage bytes without a start marker, then a frame, and the frame was
\* delivered.
C14_Witness ==
    /\ GarbageThenFrameParsed /\ ~HasStartMarker(sent[1].data)
    /\ Len(sent[1].data) = MaxGarbage
    /\ Len(delivered) = 1

\* C15: what send(tid, data) writes is delivered as one callback with tid
\* and the first min(size, capacity) bytes of data; the frame has the same
\* length whatever the size of data.
C15_RoundTrip ==
    /\ (NoNoise /\ Quiescent /\ receive_callback_)
          => delivered = ExpectedDeliveries
    /\ (Len(sent) = 1 /\ sent[1].kind = "send")
          => Len(fed) = Len(FrameOf(MAVLINK_MSG_ID_JFI,
                                    <<0, 0>> \o [i \in 1..JfiDataCap |-> 0],
                                    0, 0))

\* A send with data one byte longer than the capacity was delivered,
\* truncated.
C15_Witness ==
    /\ Quiescent /\ receive_callback_ /\ Len(sent) = 1
    /\ sent[1].kind = "send" /\ Len(sent[1].data) = JfiDataCap + 1
    /\ delivered = <<[tid |-> sent[1].tid,
                      data |-> SubSeq(sent[1].data, 1, JfiDataCap)]>>

(* -------------------------- claims on the port ------------------------ *)

\* C16: when openPort applies a speed to the descriptor it opened, the speed
\* is the requested rate if that is one of 9600, 19200, 38400, 57600,
\* 115200, and 115200 for any other value; the call then returns true.
C16_BaudMapping ==
    [][(cpc = "setattr_sys" /\ cpc' = "open_ret")
         => /\ ret'
            /\ fd_' = fd_ /\ fd_ \in osOpen'
            /\ osSpeed'[fd_] = IF baud_rate \in SupportedBauds
                                THEN baud_rate ELSE 115200]_vars

\* openPort(12345) has returned true with the port at 115200.
C16_Witness ==
    /\ cpc = "open_ret" /\ ret /\ baud_rate = 12345
    /\ fd_ \in osOpen /\ osSpeed[fd_] = 115200

(* ----------------------- claims on the two threads -------------------- *)

\* C17: with the port closed an iteration of the running loop neither reads
\* nor exits, and an openPort waiting for the mutex eventually gets it.
C17_ClosedWaitSelfHeals ==
    /\ [][(rpc = "lock" /\ rpc' # rpc /\ fd_ < 0)
            => rpc' = "sleep_locked"]_vars
    /\ [][(rpc = "sleep_locked" /\ rpc' # rpc) => rpc' = "top"]_vars
    /\ (cpc = "open_lock" /\ cctx = "api" /\ running_ /\ fd_ < 0)
          ~> (cpc # "open_lock")

\* init goes on after a successful openPort without terminating the process.
InitSucceeds ==
    /\ cpc = "open_ret" /\ cctx = "init" /\ cpc' = "init_ret"
    /\ ret /\ ~aborted'

\* The receiver thread starts.
ThreadStarts == rpc' = "top" /\ joinable' /\ (rpc = "none" \/ ~joinable)

RECURSIVE ParseAfter(_, _)
ParseAfter(p, bytes) ==
    IF bytes = <<>> THEN p
    ELSE ParseAfter(ParseChar(p, Head(bytes)).p, Tail(bytes))

\* C19: the parse state is made by the bytes the running loop has consumed
\* and by nothing else: a loop started later begins from the idle state, so
\* no frame it completes contains bytes an earlier loop consumed.
C19_ParseStateDiesWithLoop ==
    /\ parse = ParseAfter(ParseIdle, Consumed)
    /\ delivered = DecodeAll(ParseIdle, Consumed, receive_callback_)

\* The caller makes no call and waits for no lock.
CallerQuiet == cpc \in {"idle", "dtor_join", "destroyed"}

====
